---- MODULE Spec2Model ----
(***************************************************************************)
(* A model of the rag-prototype chunk extraction, indexing and query       *)
(* pipeline (src/prototype_files).                                          *)
(*                                                                         *)
(* Text is a sequence of one-character strings, a Python dict is the       *)
(* sequence of its (key, value) items in insertion order, an Optional      *)
(* value is <<>> (None) or <<v>>, and a Python value stored in a metadata  *)
(* mapping is a tagged record (PyStr, PyInt, PyNone, PyList).              *)
(***************************************************************************)
EXTENDS Integers, Sequences, FiniteSets, TLC

VARIABLES
    pc,         \* position of the operation under study
    inp,        \* the input the operation was called with
    out,        \* what the operation returned or raised
    store,      \* the vector store: collection name -> records (or absent)
    proc        \* process-wide resources and call counters

vars == <<pc, inp, out, store, proc>>

(***************************************************************************)
(* Bounds of the model.                                                    *)
(***************************************************************************)
MaxMetaItems == 2

(***************************************************************************)
(* Python values.                                                          *)
(***************************************************************************)
None == <<>>
Some(v) == <<v>>

PyStr(s) == [t |-> "str", s |-> s]
PyInt(n) == [t |-> "int", n |-> n]
PyNone == [t |-> "none"]
PyList(r) == [t |-> "list", repr |-> r]

\* config.py _is_scalar: str, int, float, bool
_is_scalar(v) == v.t \in {"str", "int", "float", "bool"}

\* str(v) of a non-scalar value: its printed form
str_of(v) == IF v.t = "list" THEN v.repr ELSE "None"

\* d[k] = v on a dict held as a function
SetItem(d, k, v) == (k :> v) @@ d

(***************************************************************************)
(* config.py: Chunk                                                        *)
(***************************************************************************)
ChunkFields ==
    {"id", "text", "source_path", "chunk_type", "doc_type", "doc_dir",
     "doc_rank_hint", "symbol_name", "loc_kind", "loc_start", "loc_end",
     "metadata"}

\* the dataclass fields that have no default
ChunkRequired ==
    {"id", "text", "source_path", "chunk_type", "doc_type", "doc_dir",
     "doc_rank_hint"}

ChunkDefaults ==
    [symbol_name |-> "", loc_kind |-> "none", loc_start |-> None,
     loc_end |-> None, metadata |-> None]

\* Chunk(**kw): the generated __init__ raises TypeError on a keyword that is
\* no field and on a missing field without default
ChunkAccepts(kw) ==
    /\ DOMAIN kw \subseteq ChunkFields
    /\ ChunkRequired \subseteq DOMAIN kw

NewChunk(kw) == kw @@ ChunkDefaults

\* the keys to_metadata writes before it looks at self.metadata
BaseMetadata(c) ==
    LET m0 == [id |-> PyStr(c.id),
               source_path |-> PyStr(c.source_path),
               chunk_type |-> PyStr(c.chunk_type),
               doc_type |-> PyStr(c.doc_type),
               doc_dir |-> PyStr(c.doc_dir),
               doc_rank_hint |-> PyInt(c.doc_rank_hint),
               symbol_name |-> PyStr(c.symbol_name),
               loc_kind |-> PyStr(c.loc_kind)]
        m1 == IF c.loc_start # None
              THEN SetItem(m0, "loc_start", PyInt(c.loc_start[1])) ELSE m0
    IN  IF c.loc_end # None
        THEN SetItem(m1, "loc_end", PyInt(c.loc_end[1])) ELSE m1

\* the key an extra metadata entry is stored under
MetaKey(m, k) == IF k \notin DOMAIN m THEN k ELSE "meta_" \o k

\* the loop over self.metadata.items()
RECURSIVE FlattenItems(_, _)
FlattenItems(m, items) ==
    IF items = <<>> THEN m
    ELSE LET k == items[1].k
             v == items[1].v
             key == MetaKey(m, k)
             m2 == IF v.t = "none" THEN m
                   ELSE IF _is_scalar(v) THEN SetItem(m, key, v)
                   ELSE SetItem(m, key, PyStr(str_of(v)))
         IN  FlattenItems(m2, Tail(items))

to_metadata(c) ==
    IF c.metadata # None /\ c.metadata[1] # <<>>
    THEN FlattenItems(BaseMetadata(c), c.metadata[1])
    ELSE BaseMetadata(c)

(***************************************************************************)
(* Specification of Chunk.to_metadata on its own: a chunk is drawn, then   *)
(* flattened.                                                              *)
(***************************************************************************)
ReservedKeys ==
    {"id", "source_path", "chunk_type", "doc_type", "doc_dir",
     "doc_rank_hint", "symbol_name", "loc_kind", "loc_start", "loc_end"}

MetaKeyPool == {"id", "meta_id", "loc_start", "note"}

MetaValuePool == {PyStr("v"), PyInt(9), PyNone, PyList("[1]")}

RECURSIVE DictsOver(_, _, _)
DictsOver(keys, values, n) ==
    IF n = 0 THEN {<<>>}
    ELSE LET shorter == DictsOver(keys, values, n - 1)
         IN  shorter \cup
             {Append(d, [k |-> k, v |-> v]) :
                 d \in {e \in shorter : Len(e) = n - 1},
                 k \in keys, v \in values}

DistinctKeys(d) == \A i, j \in 1..Len(d) : i # j => d[i].k # d[j].k

MetaDicts ==
    {d \in DictsOver(MetaKeyPool, MetaValuePool, MaxMetaItems) : DistinctKeys(d)}

MetaChunks ==
    {NewChunk([id |-> "/R/docs/a.md::md", text |-> <<"x">>,
               source_path |-> "/R/docs/a.md", chunk_type |-> "md_section",
               doc_type |-> "md", doc_dir |-> "docs", doc_rank_hint |-> 2,
               loc_kind |-> lk, loc_start |-> ls, loc_end |-> le,
               metadata |-> md]) :
        lk \in {"none", "lines"},
        ls \in {None, Some(3)},
        le \in {None, Some(7)},
        md \in {None} \cup {Some(d) : d \in MetaDicts}}

IdleStore == [c \in {"rag_chunks"} |-> None]
IdleProc == [calls |-> 0]

InitMeta ==
    /\ pc = "start"
    /\ inp \in MetaChunks
    /\ out = None
    /\ store = IdleStore
    /\ proc = IdleProc

ToMetadata ==
    /\ pc = "start"
    /\ pc' = "done"
    /\ out' = to_metadata(inp)
    /\ UNCHANGED <<inp, store, proc>>

NextMeta == ToMetadata

SpecMeta == InitMeta /\ [][NextMeta]_vars

\* the value of reserved field k of chunk c as to_metadata projects it
FieldValue(c, k) ==
    CASE k = "doc_rank_hint" -> PyInt(c.doc_rank_hint)
      [] k \in {"loc_start", "loc_end"} -> PyInt(c[k][1])
      [] OTHER -> PyStr(c[k])

FieldPresent(c, k) == k \in {"loc_start", "loc_end"} => c[k] # None

\* the entries of self.metadata that are not None
LiveItems(c) ==
    IF c.metadata = None THEN {}
    ELSE {i \in 1..Len(c.metadata[1]) : c.metadata[1][i].v.t # "none"}

\* C8: every reserved key of the flattened mapping carries the chunk's own
\* field, loc_start/loc_end are absent when the chunk has none, and every
\* metadata entry that is not None is stored under a key of its own (no entry
\* overwrites another one).
C8_ReservedKeysWin ==
    pc = "done" =>
        /\ \A k \in ReservedKeys \cap DOMAIN out :
              FieldPresent(inp, k) /\ out[k] = FieldValue(inp, k)
        /\ inp.loc_start = None => "loc_start" \notin DOMAIN out
        /\ inp.loc_end = None => "loc_end" \notin DOMAIN out
        /\ Cardinality(DOMAIN out) =
              Cardinality(DOMAIN BaseMetadata(inp)) + Cardinality(LiveItems(inp))

(***************************************************************************)
(* Text and paths.                                                         *)
(***************************************************************************)
Whitespace == {" ", "\n"}

\* str.splitlines(): the lines without their terminators, no empty last line
RECURSIVE SplitAcc(_, _, _)
SplitAcc(s, cur, acc) ==
    IF s = <<>> THEN (IF cur = <<>> THEN acc ELSE Append(acc, cur))
    ELSE IF Head(s) = "\n" THEN SplitAcc(Tail(s), <<>>, Append(acc, cur))
    ELSE SplitAcc(Tail(s), Append(cur, Head(s)), acc)

splitlines(s) == SplitAcc(s, <<>>, <<>>)

\* "\n".join(lines)
RECURSIVE JoinLines(_)
JoinLines(lines) ==
    IF lines = <<>> THEN <<>>
    ELSE IF Len(lines) = 1 THEN lines[1]
    ELSE lines[1] \o <<"\n">> \o JoinLines(Tail(lines))

\* str.strip(): leading and trailing whitespace removed
RECURSIVE LStrip(_)
LStrip(s) ==
    IF s # <<>> /\ Head(s) \in Whitespace THEN LStrip(Tail(s)) ELSE s

RECURSIVE RStrip(_)
RStrip(s) ==
    IF s # <<>> /\ s[Len(s)] \in Whitespace
    THEN RStrip(SubSeq(s, 1, Len(s) - 1)) ELSE s

strip(s) == RStrip(LStrip(s))

\* A path: its components (an absolute path starts with "/"), the components
\* of path.resolve(), and path.suffix.
MkPath(parts, real, suffix) == [parts |-> parts, real |-> real, suffix |-> suffix]

RECURSIVE JoinParts(_)
JoinParts(parts) ==
    IF parts = <<>> THEN ""
    ELSE IF Len(parts) = 1 THEN parts[1]
    ELSE parts[1] \o "/" \o JoinParts(Tail(parts))

\* str(path)
PathStr(p) ==
    IF p.parts # <<>> /\ p.parts[1] = "/"
    THEN "/" \o JoinParts(Tail(p.parts))
    ELSE JoinParts(p.parts)

\* path.name
PathName(p) == p.parts[Len(p.parts)]

(***************************************************************************)
(* parse_py.py: the concrete syntax tree of a file.  A statement is a      *)
(* simple statement line, or a def / class / if whose body is an           *)
(* IndentedBlock ("block") or a SimpleStatementSuite ("inline").           *)
(***************************************************************************)
MaxDepth == 2
MaxTop == 2

SimpleStmt == [kind |-> "simple", name |-> "", suite |-> "none", body |-> <<>>]

Headers ==
    {[kind |-> "def", name |-> "f"], [kind |-> "class", name |-> "K"],
     [kind |-> "if", name |-> ""]}

RECURSIVE SeqsUpTo(_, _)
SeqsUpTo(S, n) ==
    IF n = 0 THEN {<<>>}
    ELSE LET shorter == SeqsUpTo(S, n - 1)
         IN  shorter \cup
             {Append(q, x) : q \in {e \in shorter : Len(e) = n - 1}, x \in S}

\* the statements nested at most d suites deep; a nested block holds one
\* statement
RECURSIVE StmtsOfDepth(_)
StmtsOfDepth(d) ==
    IF d = 0 THEN {SimpleStmt}
    ELSE {SimpleStmt}
         \cup {[kind |-> h.kind, name |-> h.name, suite |-> "inline",
                body |-> <<SimpleStmt>>] : h \in Headers}
         \cup {[kind |-> h.kind, name |-> h.name, suite |-> "block",
                body |-> <<s>>] :
                  h \in Headers, s \in StmtsOfDepth(d - 1)}

ModuleBodies(d, n) == SeqsUpTo(StmtsOfDepth(d), n)

HeaderChar(kind) ==
    CASE kind = "def" -> "d" [] kind = "class" -> "c" [] OTHER -> "i"

RECURSIVE Indent(_)
Indent(n) == IF n = 0 THEN <<>> ELSE <<" ">> \o Indent(n - 1)

\* the source lines of a statement list, as the parser's code generator
\* writes them back
RECURSIVE RenderStmts(_, _)
RenderStmts(stmts, ind) ==
    IF stmts = <<>> THEN <<>>
    ELSE LET s == stmts[1]
             own ==
                 IF s.kind = "simple" THEN <<Indent(ind) \o <<"s">>>>
                 ELSE IF s.suite = "inline"
                 THEN <<Indent(ind) \o <<HeaderChar(s.kind), ":", "s">>>>
                 ELSE <<Indent(ind) \o <<HeaderChar(s.kind), ":">>>>
                      \o RenderStmts(s.body, ind + 1)
         IN  own \o RenderStmts(Tail(stmts), ind)

LineCount(s) == Len(RenderStmts(<<s>>, 0))

\* A code file: its text, and what cst.parse_module answers for that text
WellFormedFiles(d, n) ==
    {[source |-> JoinLines(RenderStmts(b, 0)) \o nl, parses |-> TRUE, body |-> b] :
        b \in ModuleBodies(d, n), nl \in {<<>>, <<"\n">>}}

\* an unbalanced parenthesis after any well-formed text
MalformedFiles(d, n) ==
    {[source |-> JoinLines(RenderStmts(b, 0) \o <<<<"(">>>>), parses |-> FALSE,
      body |-> <<>>] : b \in ModuleBodies(d, n)}

PyFiles(d, n) == WellFormedFiles(d, n) \cup MalformedFiles(d, n)

PyPath == MkPath(<<"/", "R", "src", "a.py">>, <<"/", "R", "src", "a.py">>, ".py")

(***************************************************************************)
(* parse_py.py: _slice_source_by_range and _TopLevelDefCollector           *)
(***************************************************************************)
Max(a, b) == IF a >= b THEN a ELSE b
Min(a, b) == IF a <= b THEN a ELSE b

_slice_source_by_range(source, startLine, endLine) ==
    LET lines == splitlines(source)
        start_line == Max(1, startLine)
        end_line == Min(Len(lines), endLine)
    IN  JoinLines(SubSeq(lines, start_line, end_line))

NewCollector == [depth |-> 0, records |-> <<>>, levels |-> <<>>]

\* visit_IndentedBlock / visit_SimpleStatementSuite
EnterSuite(st) == [st EXCEPT !.depth = @ + 1]

\* leave_IndentedBlock / leave_SimpleStatementSuite
LeaveSuite(st) == [st EXCEPT !.depth = @ - 1]

\* the test of visit_FunctionDef and visit_ClassDef
AtTopLevel(st) == st.depth = 0

\* visit_FunctionDef / visit_ClassDef: record at depth 0, never descend
VisitDef(s, line, source, st) ==
    IF AtTopLevel(st)
    THEN LET last == line + LineCount(s) - 1
         IN  [st EXCEPT !.records = Append(@,
                 [kind |-> IF s.kind = "def" THEN "py_function" ELSE "py_class",
                  name |-> s.name, start_line |-> line, end_line |-> last,
                  text |-> _slice_source_by_range(source, line, last)])]
    ELSE st

\* the traversal of a statement list that starts on source line `line`;
\* `top` says that the list is the module body
RECURSIVE VisitStmts(_, _, _, _, _)
VisitStmts(stmts, line, source, top, st) ==
    IF stmts = <<>> THEN st
    ELSE LET s == stmts[1]
             after ==
                 CASE s.kind = "simple" -> st
                   [] s.kind \in {"def", "class"} -> VisitDef(s, line, source, st)
                   [] OTHER ->
                        LeaveSuite(VisitStmts(s.body,
                            IF s.suite = "block" THEN line + 1 ELSE line,
                            source, FALSE, EnterSuite(st)))
         IN  VisitStmts(Tail(stmts), line + LineCount(s), source, top,
                        IF top
                        THEN [after EXCEPT !.levels = Append(@, after.depth)]
                        ELSE after)

\* wrapper.visit(collector): visit_Module, then the module body
VisitModule(body, source) ==
    VisitStmts(body, 1, source, TRUE, [NewCollector EXCEPT !.depth = 0])

(***************************************************************************)
(* parse_py.py: parse_python_file                                          *)
(***************************************************************************)
Raise(e, chunks) == [raised |-> e, chunks |-> chunks]
Return(chunks) == [raised |-> "", chunks |-> chunks]

Item(k, v) == [k |-> k, v |-> v]

\* the keyword arguments of the module chunk
ModuleKw(path, source, meta) ==
    LET lines == splitlines(source)
    IN  [id |-> PathStr(path) \o "::module",
         text |-> source,
         source_path |-> PathStr(path),
         chunk_type |-> "py_module",
         start_line |-> 1,
         end_line |-> IF lines # <<>> THEN Len(lines) ELSE 1,
         metadata |-> Some(meta)]

\* the keyword arguments of a function or class chunk
DefKw(path, rec) ==
    [id |-> PathStr(path)
              \o (IF rec.kind = "py_function" THEN "::func::" ELSE "::class::")
              \o rec.name \o "::" \o ToString(rec.start_line) \o "-"
              \o ToString(rec.end_line),
     text |-> rec.text,
     source_path |-> PathStr(path),
     chunk_type |-> rec.kind,
     start_line |-> rec.start_line,
     end_line |-> rec.end_line,
     metadata |-> Some(<<Item("symbol", PyStr(rec.name)),
                         Item("parser", PyStr("libcst"))>>)]

\* the except branch: chunks[0] is replaced by the tagged module chunk
Fallback(path, source, chunks) ==
    LET kw == ModuleKw(path, source,
                  <<Item("filename", PyStr(PathName(path))),
                    Item("parser", PyStr("libcst")),
                    Item("note", PyStr("parse_failed_fallback"))>>)
    IN  IF ChunkAccepts(kw)
        THEN Return(<<NewChunk(kw)>> \o Tail(chunks))
        ELSE Raise("TypeError", <<>>)

\* the loop over collector.records inside the try block
RECURSIVE AppendDefChunks(_, _, _, _)
AppendDefChunks(path, source, records, chunks) ==
    IF records = <<>> THEN Return(chunks)
    ELSE LET kw == DefKw(path, records[1])
         IN  IF ChunkAccepts(kw)
             THEN AppendDefChunks(path, source, Tail(records),
                                  Append(chunks, NewChunk(kw)))
             ELSE Fallback(path, source, chunks)

parse_python_file(path, file) ==
    LET source == file.source
        kw == ModuleKw(path, source,
                  <<Item("filename", PyStr(PathName(path))),
                    Item("parser", PyStr("libcst"))>>)
    IN  IF ~ChunkAccepts(kw) THEN Raise("TypeError", <<>>)
        ELSE IF ~file.parses THEN Fallback(path, source, <<NewChunk(kw)>>)
        ELSE AppendDefChunks(path, source,
                 VisitModule(file.body, source).records, <<NewChunk(kw)>>)

(***************************************************************************)
(* Specification of parse_python_file on its own: a code file is drawn,    *)
(* then parsed.                                                            *)
(***************************************************************************)
InitPy ==
    /\ pc = "start"
    /\ inp \in PyFiles(MaxDepth, MaxTop)
    /\ out = Return(<<>>)
    /\ store = IdleStore
    /\ proc = IdleProc

ParsePythonFile ==
    /\ pc = "start"
    /\ pc' = "done"
    /\ out' = parse_python_file(PyPath, inp)
    /\ UNCHANGED <<inp, store, proc>>

NextPy == ParsePythonFile

SpecPy == InitPy /\ [][NextPy]_vars

\* the line count N of a file, at least 1
FileLines(source) ==
    IF splitlines(source) = <<>> THEN 1 ELSE Len(splitlines(source))

ModuleChunks(chunks) ==
    {i \in 1..Len(chunks) : chunks[i].chunk_type = "py_module"}

\* C1: for every code file (empty, well-formed or malformed) the call returns,
\* and the first returned chunk is the only module chunk, holds the whole
\* file and spans lines 1..N.
C1_ModuleChunkAlways ==
    pc = "done" =>
        /\ out.raised = ""
        /\ ModuleChunks(out.chunks) = {1}
        /\ out.chunks[1].text = inp.source
        /\ out.chunks[1].loc_start = Some(1)
        /\ out.chunks[1].loc_end = Some(FileLines(inp.source))

HasNote(c, note) ==
    /\ c.metadata # None
    /\ \E i \in 1..Len(c.metadata[1]) :
          c.metadata[1][i] = Item("note", PyStr(note))

\* C2: for a file whose syntax cannot be parsed the call does not raise and
\* returns the module chunk alone, tagged parse_failed_fallback.
C2_FallbackOnSyntaxError ==
    (pc = "done" /\ ~inp.parses) =>
        /\ out.raised = ""
        /\ Len(out.chunks) = 1
        /\ out.chunks[1].chunk_type = "py_module"
        /\ HasNote(out.chunks[1], "parse_failed_fallback")

\* the def and class statements that are direct children of the module body,
\* in source order, with their first line
RECURSIVE TopLevelDefs(_, _)
TopLevelDefs(stmts, line) ==
    IF stmts = <<>> THEN <<>>
    ELSE (IF stmts[1].kind \in {"def", "class"}
          THEN <<[kind |-> IF stmts[1].kind = "def"
                           THEN "py_function" ELSE "py_class",
                  name |-> stmts[1].name,
                  first |-> line,
                  last |-> line + LineCount(stmts[1]) - 1]>>
          ELSE <<>>)
         \o TopLevelDefs(Tail(stmts), line + LineCount(stmts[1]))

\* C3: for a file that parses, the function and class chunks returned are,
\* one for one and in source order, the def and class statements that are
\* direct children of the module body (so no nested definition has a chunk),
\* and the collector's depth is 0 after every module-level statement.
C3_TopLevelDefsOnly ==
    (pc = "done" /\ inp.parses) =>
        LET defs == TopLevelDefs(inp.body, 1)
        IN  /\ out.raised = ""
            /\ Len(out.chunks) = 1 + Len(defs)
            /\ \A i \in 1..Len(defs) :
                  /\ out.chunks[i + 1].chunk_type = defs[i].kind
                  /\ out.chunks[i + 1].symbol_name = defs[i].name
                  /\ out.chunks[i + 1].loc_start = Some(defs[i].first)
                  /\ out.chunks[i + 1].loc_end = Some(defs[i].last)
            /\ \A i \in 1..Len(inp.body) :
                  VisitModule(inp.body, inp.source).levels[i] = 0

(***************************************************************************)
(* config.py: infer_doc_fields                                             *)
(***************************************************************************)
\* the resolved repository root
RepoRoot == <<"/", "R">>

IsPrefix(a, b) == Len(a) <= Len(b) /\ SubSeq(b, 1, Len(a)) = a

\* file_path.resolve().relative_to(repo_root.resolve()), which raises
\* ValueError when the root is no prefix: then rel stays file_path
RelativeParts(root, path) ==
    IF IsPrefix(root, path.real)
    THEN SubSeq(path.real, Len(root) + 1, Len(path.real))
    ELSE path.parts

\* file_path.suffix.lower().lstrip(".")
ExtOf(suffix) ==
    CASE suffix \in {".py", ".PY"} -> "py"
      [] suffix \in {".ipynb", ".IPYNB"} -> "ipynb"
      [] suffix \in {".md", ".MD"} -> "md"
      [] suffix = ".rst" -> "rst"
      [] suffix = ".txt" -> "txt"
      [] suffix = ".xyz" -> "xyz"
      [] OTHER -> ""

infer_doc_fields(root, path) ==
    LET parts == RelativeParts(root, path)
        doc_dir == IF Len(parts) > 1 THEN parts[1] ELSE "."
        ext == ExtOf(path.suffix)
        doc_type == IF ext # "" THEN ext ELSE "unknown"
        doc_rank_hint ==
            IF doc_type = "py"
            THEN (IF doc_dir \in {"src", "rag_prototype", "prototype_files"}
                  THEN 0 ELSE 1)
            ELSE IF doc_type = "ipynb" THEN 1
            ELSE IF doc_type \in {"md", "rst", "txt"} THEN 2
            ELSE 3
    IN  [doc_type |-> doc_type, doc_dir |-> doc_dir,
         doc_rank_hint |-> doc_rank_hint]

(***************************************************************************)
(* infer_doc_fields on its own: one call on a path drawn from the paths a  *)
(* caller can pass.                                                        *)
(***************************************************************************)
MaxDirs == 2

DirNames == {"src", "docs", "lib"}
FileNames == {"a.py", "n.ipynb", "readme.md", "LICENSE"}

\* path.suffix of a file name
SuffixOf(name) ==
    CASE name = "a.py" -> ".py"
      [] name = "n.ipynb" -> ".ipynb"
      [] name = "readme.md" -> ".md"
      [] OTHER -> ""

\* a directory outside the repository root
Outside == <<"/", "T">>

\* file_path as the caller writes it and file_path.resolve():
\*   an absolute path under the root, resolving to itself;
\*   an absolute path under the root that is a symlink out of the tree;
\*   an absolute path outside the root;
\*   a relative path, resolved against a working directory that is the
\*   root or lies outside it
DocPaths ==
    UNION {
        {MkPath(RepoRoot \o rel, RepoRoot \o rel, SuffixOf(rel[Len(rel)])),
         MkPath(RepoRoot \o rel, Outside \o <<rel[Len(rel)]>>,
                SuffixOf(rel[Len(rel)])),
         MkPath(Outside \o rel, Outside \o rel, SuffixOf(rel[Len(rel)])),
         MkPath(rel, RepoRoot \o rel, SuffixOf(rel[Len(rel)])),
         MkPath(rel, Outside \o rel, SuffixOf(rel[Len(rel)]))}
        : rel \in {d \o <<n>> : d \in SeqsUpTo(DirNames, MaxDirs),
                                n \in FileNames}}

InitDoc ==
    /\ pc = "start"
    /\ inp \in DocPaths
    /\ out = [doc_type |-> "", doc_dir |-> "", doc_rank_hint |-> 0]
    /\ store = IdleStore
    /\ proc = IdleProc

InferDocFields ==
    /\ pc = "start"
    /\ pc' = "done"
    /\ out' = infer_doc_fields(RepoRoot, inp)
    /\ UNCHANGED <<inp, store, proc>>

NextDoc == InferDocFields

SpecDoc == InitDoc /\ [][NextDoc]_vars

\* C11: doc_dir is the first component of the file's path relative to the
\* repository root, and "." when that relative path has exactly one
\* component; when the path cannot be made relative to the root, doc_dir
\* is "." (the bare filename stands for the relative path).
C11_DocDir ==
    pc = "done" =>
        IF IsPrefix(RepoRoot, inp.real)
        THEN LET rel == SubSeq(inp.real, Len(RepoRoot) + 1, Len(inp.real))
             IN  out.doc_dir = IF Len(rel) = 1 THEN "." ELSE rel[1]
        ELSE out.doc_dir = "."

\* The part of C11 about paths under the root (a lemma): there doc_dir is
\* the first component of the relative path, "." for a file at the root.
DocDirUnderRoot ==
    (pc = "done" /\ IsPrefix(RepoRoot, inp.real)) =>
        LET rel == SubSeq(inp.real, Len(RepoRoot) + 1, Len(inp.real))
        IN  out.doc_dir = IF Len(rel) = 1 THEN "." ELSE rel[1]

(***************************************************************************)
(* parse_ipynb.py: parse_notebook                                          *)
(***************************************************************************)
MaxCells == 3
MaxRuns == 2

\* the test that skips a cell
SkipCell(source) == source = <<>> \/ strip(source) = <<>>

\* the ordinal enumerate(nb.cells) gives the cell at (1-based) position pos
\* while `chunks` have been emitted so far
CellOrdinalRenumbered(pos, chunks) == Len(chunks)
CellOrdinal(pos, chunks) == pos - 1

CellChunk(path, doc, i, cell) ==
    NewChunk([id |-> PathStr(path) \o "::cell::" \o ToString(i),
              text |-> cell.source,
              source_path |-> PathStr(path),
              chunk_type |-> "ipynb_cell",
              doc_type |-> doc.doc_type,
              doc_dir |-> doc.doc_dir,
              doc_rank_hint |-> doc.doc_rank_hint,
              symbol_name |-> "",
              loc_kind |-> "cell",
              loc_start |-> Some(i),
              loc_end |-> Some(i),
              metadata |-> Some(<<Item("cell_type", PyStr(cell.cell_type))>>)])

\* the chunk returned when nbformat.read raises
RawNotebookChunk(path, doc, txt) ==
    NewChunk([id |-> PathStr(path) \o "::notebook_raw",
              text |-> txt,
              source_path |-> PathStr(path),
              chunk_type |-> "ipynb_cell",
              doc_type |-> doc.doc_type,
              doc_dir |-> doc.doc_dir,
              doc_rank_hint |-> doc.doc_rank_hint,
              symbol_name |-> "",
              loc_kind |-> "none",
              metadata |-> Some(<<Item("note", PyStr("nbformat_read_failed"))>>)])

\* the loop over enumerate(nb.cells), from position pos on
RECURSIVE CellLoop(_, _, _, _, _)
CellLoop(path, doc, cells, pos, chunks) ==
    IF pos > Len(cells) THEN chunks
    ELSE IF SkipCell(cells[pos].source)
    THEN CellLoop(path, doc, cells, pos + 1, chunks)
    ELSE CellLoop(path, doc, cells, pos + 1,
             Append(chunks,
                 CellChunk(path, doc, CellOrdinal(pos, chunks), cells[pos])))

parse_notebook(path, nb) ==
    LET doc == infer_doc_fields(RepoRoot, path)
    IN  IF ~nb.reads THEN Return(<<RawNotebookChunk(path, doc, nb.raw)>>)
        ELSE Return(CellLoop(path, doc, nb.cells, 1, <<>>))

(***************************************************************************)
(* Specification of parse_notebook on its own: a notebook file is drawn,   *)
(* then parsed MaxRuns times.                                              *)
(***************************************************************************)
CellSources == {<<>>, <<" ", "\n">>, <<"x">>, <<"\n", "x", " ">>}

Cells ==
    {[cell_type |-> t, source |-> src] :
        t \in {"code", "markdown"}, src \in CellSources}

\* a notebook file: its raw text and what nbformat.read makes of it
ReadableNotebooks ==
    {[raw |-> <<"{", "}">>, reads |-> TRUE, cells |-> cs] :
        cs \in SeqsUpTo(Cells, MaxCells)}

CorruptNotebooks ==
    {[raw |-> r, reads |-> FALSE, cells |-> <<>>] :
        r \in {<<>>, <<" ">>, <<"x">>}}

NbPaths ==
    {MkPath(<<"/", "R", "notebooks", "n.ipynb">>,
            <<"/", "R", "notebooks", "n.ipynb">>, ".ipynb"),
     MkPath(<<"/", "R", "n.ipynb">>, <<"/", "R", "n.ipynb">>, ".ipynb")}

InitNb ==
    /\ pc = "start"
    /\ inp \in {[path |-> p, nb |-> n] :
                   p \in NbPaths, n \in ReadableNotebooks \cup CorruptNotebooks}
    /\ out = <<>>
    /\ store = IdleStore
    /\ proc = IdleProc

\* one run of parse_notebook on the unchanged file
ParseNotebook ==
    /\ Len(out) < MaxRuns
    /\ pc' = "done"
    /\ out' = Append(out, parse_notebook(inp.path, inp.nb))
    /\ UNCHANGED <<inp, store, proc>>

NextNb == ParseNotebook

SpecNb == InitNb /\ [][NextNb]_vars

\* the 0-based ordinals of the cells whose source is neither empty nor blank
RetainedOrdinals(cells) ==
    {i - 1 : i \in {j \in 1..Len(cells) :
                       \E k \in 1..Len(cells[j].source) :
                           cells[j].source[k] \notin Whitespace}}

\* C6: for a notebook that parses, every run emits one chunk per cell that
\* is neither empty nor all whitespace and none for the others, in document
\* order; each chunk has loc_kind cell, loc_start = loc_end = the cell's
\* 0-based position among all cells and an id ending in that ordinal; ids
\* are pairwise distinct and the same in every run.
C6_CellOrdinals ==
    inp.nb.reads =>
        \A r \in 1..Len(out) :
            LET chunks == out[r].chunks
            IN  /\ out[r].raised = ""
                /\ {chunks[j].loc_start[1] : j \in 1..Len(chunks)}
                       = RetainedOrdinals(inp.nb.cells)
                /\ \A j \in 1..Len(chunks) :
                      /\ chunks[j].loc_kind = "cell"
                      /\ chunks[j].loc_end = chunks[j].loc_start
                      /\ chunks[j].text
                             = inp.nb.cells[chunks[j].loc_start[1] + 1].source
                      /\ chunks[j].id = PathStr(inp.path) \o "::cell::"
                                           \o ToString(chunks[j].loc_start[1])
                /\ \A j, k \in 1..Len(chunks) :
                      j < k => /\ chunks[j].loc_start[1] < chunks[k].loc_start[1]
                               /\ chunks[j].id # chunks[k].id
                /\ out[r] = out[1]

\* two runs over three cells whose second is blank: chunks for ordinals 0, 2
C6_Witness ==
    /\ Len(out) = 2
    /\ inp.nb.reads
    /\ Len(inp.nb.cells) = 3
    /\ inp.nb.cells[2].source = <<" ", "\n">>
    /\ Len(out[2].chunks) = 2
    /\ out[2].chunks[1].loc_start = Some(0)
    /\ out[2].chunks[2].loc_start = Some(2)

(***************************************************************************)
(* index.py build_embeddings and query.py search: unit normalization.      *)
(* A raw embedding is a vector of integers whose Euclidean norm is an      *)
(* integer; a float quotient is an exact fraction in lowest terms, or the  *)
(* IEEE result of a division by zero (nan, inf).                           *)
(***************************************************************************)
EmbDim == 3
MaxCoord == 4

RECURSIVE SumSquares(_)
SumSquares(v) == IF v = <<>> THEN 0 ELSE v[1] * v[1] + SumSquares(Tail(v))

IsSquare(n) == \E r \in 0..n : r * r = n

\* np.linalg.norm of one row
Norm(v) == CHOOSE r \in 0..SumSquares(v) : r * r = SumSquares(v)

RawVectors ==
    {v \in [1..EmbDim -> -MaxCoord..MaxCoord] : IsSquare(SumSquares(v))}

Abs(x) == IF x < 0 THEN -x ELSE x

RECURSIVE GCD(_, _)
GCD(a, b) == IF b = 0 THEN a ELSE GCD(b, a % b)

\* x / n in floating point
FloatDiv(x, n) ==
    IF n = 0
    THEN [k |-> IF x = 0 THEN "nan" ELSE "inf", num |-> 0, den |-> 0]
    ELSE LET g == GCD(Abs(x), n)
         IN  [k |-> "fin", num |-> x \div g, den |-> n \div g]

\* build_embeddings: norms[norms == 0] = 1.0; embs = embs / norms
IndexNormalize(v) ==
    LET n == IF Norm(v) = 0 THEN 1 ELSE Norm(v)
    IN  [i \in 1..Len(v) |-> FloatDiv(v[i], n)]

\* search: q_emb = q_emb / np.linalg.norm(q_emb, axis=1, keepdims=True)
QueryNormalize(v) == [i \in 1..Len(v) |-> FloatDiv(v[i], Norm(v))]

(***************************************************************************)
(* Specification of the two normalization steps on the same raw vector.    *)
(***************************************************************************)
InitEmbed ==
    /\ pc = "start"
    /\ inp \in RawVectors
    /\ out = [index |-> None, query |-> None]
    /\ store = IdleStore
    /\ proc = IdleProc

\* the vector build_embeddings returns for the raw embedding
BuildEmbeddingsStep ==
    /\ out.index = None
    /\ out' = [out EXCEPT !.index = Some(IndexNormalize(inp))]
    /\ pc' = IF out.query # None THEN "done" ELSE "half"
    /\ UNCHANGED <<inp, store, proc>>

\* the vector search sends to the store for the raw embedding
SearchEncodeStep ==
    /\ out.query = None
    /\ out' = [out EXCEPT !.query = Some(QueryNormalize(inp))]
    /\ pc' = IF out.index # None THEN "done" ELSE "half"
    /\ UNCHANGED <<inp, store, proc>>

NextEmbed == BuildEmbeddingsStep \/ SearchEncodeStep

SpecEmbed == InitEmbed /\ [][NextEmbed]_vars

\* C10: for every raw embedding, the zero vector included, the vector search
\* sends to the store equals the vector build_embeddings stores, and the
\* zero vector stays the zero vector in both paths.
C10_SameNormalization ==
    pc = "done" =>
        /\ out.query = out.index
        /\ Norm(inp) = 0 =>
              \A i \in 1..EmbDim : out.query[1][i] = FloatDiv(0, 1)

(***************************************************************************)
(* The embedding model and the vector store, as index.py and query.py use  *)
(* them.  The store holds, per collection name, None (no such collection)  *)
(* or the sequence of its records.                                         *)
(***************************************************************************)
CollectionName == "rag_chunks"

\* model.encode(text): some fixed non-zero vector per text
Embed(text) ==
    CASE Len(text) % 3 = 0 -> [i \in 1..EmbDim |-> IF i = 1 THEN 1 ELSE 0]
      [] Len(text) % 3 = 1 -> [i \in 1..EmbDim |-> IF i = 1 THEN 0 ELSE IF i = 2 THEN 3 ELSE IF i = 3 THEN 4 ELSE 0]
      [] OTHER -> [i \in 1..EmbDim |-> IF i = EmbDim THEN 2 ELSE 0]

\* exact arithmetic on finite floats
Rat(n, d) == FloatDiv(n, d)
RatSub(a, b) == Rat(a.num * b.den - b.num * a.den, a.den * b.den)
RatAdd(a, b) == Rat(a.num * b.den + b.num * a.den, a.den * b.den)
RatMul(a, b) == Rat(a.num * b.num, a.den * b.den)
RatLess(a, b) == a.num * b.den < b.num * a.den

\* the store's distance between two vectors: squared L2
RECURSIVE SquaredL2(_, _, _)
SquaredL2(q, e, i) ==
    IF i > Len(q) THEN Rat(0, 1)
    ELSE RatAdd(RatMul(RatSub(q[i], e[i]), RatSub(q[i], e[i])),
                SquaredL2(q, e, i + 1))

RECURSIVE InsertRow(_, _)
InsertRow(sorted, row) ==
    IF sorted = <<>> THEN <<row>>
    ELSE IF RatLess(row.dist, sorted[1].dist) THEN <<row>> \o sorted
    ELSE <<sorted[1]>> \o InsertRow(Tail(sorted), row)

RECURSIVE SortRows(_, _)
SortRows(records, q) ==
    IF records = <<>> THEN <<>>
    ELSE InsertRow(SortRows(SubSeq(records, 1, Len(records) - 1), q),
                   [dist |-> SquaredL2(q, records[Len(records)].embedding, 1),
                    rec |-> records[Len(records)]])

\* collection.query(query_embeddings=[q], n_results=k, include=[...]) on a
\* collection that holds records: the k nearest, one result row
QueryAnswer(records, q, k) ==
    LET rows == SubSeq(SortRows(records, q), 1, Min(k, Len(records)))
    IN  [has_distances |-> TRUE,
         ids |-> <<[i \in 1..Len(rows) |-> rows[i].rec.id]>>,
         distances |-> <<[i \in 1..Len(rows) |-> rows[i].dist]>>,
         documents |-> <<[i \in 1..Len(rows) |-> rows[i].rec.document]>>,
         metadatas |-> <<[i \in 1..Len(rows) |-> rows[i].rec.metadata]>>]

\* what a store may answer for a collection without records: one empty
\* row, no row at all, or an answer without the "distances" key
EmptyAnswers ==
    {[has_distances |-> TRUE, ids |-> <<<<>>>>, distances |-> <<<<>>>>,
      documents |-> <<<<>>>>, metadatas |-> <<<<>>>>],
     [has_distances |-> TRUE, ids |-> <<>>, distances |-> <<>>,
      documents |-> <<>>, metadatas |-> <<>>],
     [has_distances |-> FALSE, ids |-> <<>>, distances |-> <<>>,
      documents |-> <<>>, metadatas |-> <<>>]}

\* collection.delete() without ids or filter: the store refuses the call
\* (the exception is swallowed) or removes the records; the collection
\* itself stays registered under its name either way
DeleteOutcomes == {"raises", "removes_records"}

AfterDelete(records, outcome) ==
    IF outcome = "removes_records" THEN <<>> ELSE records

(***************************************************************************)
(* index.py: build_embeddings and create_collection_and_index              *)
(***************************************************************************)
\* build_embeddings: one normalized vector per chunk; on an empty list the
\* norm along axis 1 of the empty array raises
\* (the model is constructed first, on every call)
build_embeddings(chunks) ==
    IF chunks = <<>>
    THEN [raised |-> "AxisError", embs |-> <<>>, model_inits |-> 1]
    ELSE [raised |-> "", model_inits |-> 1,
          embs |-> [i \in 1..Len(chunks) |-> IndexNormalize(Embed(chunks[i].text))]]

\* the records collection.add stores for a batch
BatchRecords(chunks, embs) ==
    [i \in 1..Len(chunks) |->
        [id |-> chunks[i].id, document |-> chunks[i].text,
         metadata |-> to_metadata(chunks[i]), embedding |-> embs[i]]]

\* the outcome of one run on the store `coll` (None or Some(records)):
\* what is raised, the collection afterwards, and which resources the run
\* initialized
create_collection_and_index(chunks, coll, del) ==
    LET old == IF coll # None THEN Some(AfterDelete(coll[1], del)) ELSE coll
    IN  IF old # None
        THEN \* client.create_collection on a name that exists
             [raised |-> "UniqueConstraintError", coll |-> old,
              client_inits |-> 1, embedded |-> FALSE, model_inits |-> 0]
        ELSE LET e == build_embeddings(chunks)
             IN  IF e.raised # ""
                 THEN [raised |-> e.raised, coll |-> Some(<<>>),
                       client_inits |-> 1, embedded |-> TRUE,
                       model_inits |-> e.model_inits]
                 ELSE [raised |-> "", coll |-> Some(BatchRecords(chunks, e.embs)),
                       client_inits |-> 1, embedded |-> TRUE,
                       model_inits |-> e.model_inits]

(***************************************************************************)
(* build_index.py: main                                                    *)
(***************************************************************************)
MaxFiles == 1
MaxCalls == 3

MdChunk(path, text) ==
    LET doc == infer_doc_fields(RepoRoot, path)
    IN  NewChunk([id |-> PathStr(path) \o "::md",
                  text |-> text,
                  source_path |-> PathStr(path),
                  chunk_type |-> "md_section",
                  doc_type |-> doc.doc_type,
                  doc_dir |-> doc.doc_dir,
                  doc_rank_hint |-> doc.doc_rank_hint,
                  symbol_name |-> "",
                  loc_kind |-> "none",
                  metadata |-> Some(<<Item("filename", PyStr(PathName(path)))>>)])

\* the chunks one file contributes, or the exception its extractor raises
ExtractFile(f) ==
    CASE f.path.suffix = ".py" -> parse_python_file(f.path, f.py)
      [] f.path.suffix = ".ipynb" -> parse_notebook(f.path, f.nb)
      [] OTHER -> IF strip(f.text) # <<>>
                  THEN Return(<<MdChunk(f.path, f.text)>>)
                  ELSE Return(<<>>)

\* the loop over iter_repo_files: an exception ends main
RECURSIVE CollectChunks(_, _)
CollectChunks(files, chunks) ==
    IF files = <<>> THEN Return(chunks)
    ELSE LET r == ExtractFile(files[1])
         IN  IF r.raised # "" THEN Raise(r.raised, chunks)
             ELSE CollectChunks(Tail(files), chunks \o r.chunks)

\* the files a repository may hold
AbsPath(dir, name, suffix) ==
    MkPath(<<"/", "R", dir, name>>, <<"/", "R", dir, name>>, suffix)

NoPy == [source |-> <<>>, parses |-> TRUE, body |-> <<>>]
NoNb == [raw |-> <<>>, reads |-> FALSE, cells |-> <<>>]

RepoFile(path, py, nb, text) == [path |-> path, py |-> py, nb |-> nb, text |-> text]

FilePool ==
    {RepoFile(AbsPath("lib", "a.py", ".py"),
              [source |-> <<"s", "\n">>, parses |-> TRUE, body |-> <<SimpleStmt>>],
              NoNb, <<>>),
     RepoFile(AbsPath("nbs", "empty.ipynb", ".ipynb"), NoPy, NoNb, <<>>),
     RepoFile(AbsPath("nbs", "n.ipynb", ".ipynb"), NoPy,
              [raw |-> <<"{", "}">>, reads |-> TRUE,
               cells |-> <<[cell_type |-> "code", source |-> <<"x">>],
                           [cell_type |-> "markdown", source |-> <<" ">>],
                           [cell_type |-> "code", source |-> <<"x", "\n", "x">>]>>],
              <<>>),
     RepoFile(AbsPath("docs", "blank.md", ".md"), NoPy, NoNb, <<" ", "\n">>),
     RepoFile(AbsPath("docs", "readme.md", ".md"), NoPy, NoNb, <<"x", "x">>)}

Distinct(q) == \A i, j \in 1..Len(q) : i # j => q[i] # q[j]

Repos == {r \in SeqsUpTo(FilePool, MaxFiles) : Distinct(r)}

(***************************************************************************)
(* query.py: search                                                        *)
(***************************************************************************)
\* the loop over zip(dists, docs, metas)
SearchItems(ans) ==
    LET dists == ans.distances[1]
        docs == ans.documents[1]
        metas == ans.metadatas[1]
        ids == ans.ids[1]
        n == Min(Len(dists), Min(Len(docs), Len(metas)))
    IN  [i \in 1..n |->
            [score |-> dists[i],
             item |-> [id |-> IF i <= Len(ids) THEN Some(ids[i])
                              ELSE IF "id" \in DOMAIN metas[i]
                              THEN Some(metas[i]["id"].s) ELSE None,
                       text |-> docs[i],
                       metadata |-> metas[i]]]]

\* the part of search after collection.query
SearchResults(ans) ==
    IF ~ans.has_distances \/ Len(ans.distances) = 0 THEN <<>>
    ELSE SearchItems(ans)

\* _get_model under lru_cache(maxsize=1): loads when nothing is cached
ModelLoads(cached) == IF cached THEN 0 ELSE 1

Queries == {<<"q">>, <<"q", "q">>}
TopKs == {1, 2}

(***************************************************************************)
(* The process: build_index.main and search calls against one persisted    *)
(* store, in any order.                                                    *)
(***************************************************************************)
Init ==
    /\ pc = "idle"
    /\ inp = [repo |-> <<>>, query |-> <<>>, top_k |-> 0]
    /\ out = [op |-> "none", raised |-> "", batch |-> <<>>,
              index_called |-> FALSE, coll_before |-> None,
              answer |-> [has_distances |-> FALSE, ids |-> <<>>,
                          distances |-> <<>>, documents |-> <<>>,
                          metadatas |-> <<>>],
              results |-> <<>>]
    /\ store = [c \in {CollectionName} |-> None]
    /\ proc = [calls |-> 0, client_inits |-> 0, query_model_inits |-> 0,
               index_model_inits |-> 0, model_cached |-> FALSE,
               index_runs |-> 0, index_embeds |-> 0, searches |-> 0,
               search_embeds |-> 0]

\* build_index.main on the repository as it is at the time of the call;
\* collection.delete() is called, with either outcome, only when the
\* collection exists
Main ==
    /\ proc.calls < MaxCalls
    /\ \E repo \in Repos,
          del \in IF store[CollectionName] = None THEN {"raises"}
                  ELSE DeleteOutcomes :
          LET got == CollectChunks(repo, <<>>)
              run == create_collection_and_index(got.chunks,
                         store[CollectionName], del)
          IN  /\ inp' = [inp EXCEPT !.repo = repo]
              /\ IF got.raised # ""
                 THEN /\ out' = [out EXCEPT !.op = "main", !.raised = got.raised,
                                    !.batch = got.chunks, !.index_called = FALSE,
                                    !.coll_before = store[CollectionName]]
                      /\ store' = store
                      /\ proc' = [proc EXCEPT !.calls = @ + 1]
                 ELSE /\ out' = [out EXCEPT !.op = "main", !.raised = run.raised,
                                    !.batch = got.chunks, !.index_called = TRUE,
                                    !.coll_before = store[CollectionName]]
                      /\ store' = [store EXCEPT ![CollectionName] = run.coll]
                      /\ proc' = [proc EXCEPT
                            !.calls = @ + 1,
                            !.index_runs = @ + 1,
                            !.client_inits = @ + run.client_inits,
                            !.index_model_inits = @ + run.model_inits,
                            !.index_embeds =
                                @ + IF run.embedded THEN 1 ELSE 0]
    /\ pc' = "called"

\* search(query, repo_root, top_k)
Search ==
    /\ proc.calls < MaxCalls
    /\ \E query \in Queries, top_k \in TopKs :
          LET coll == store[CollectionName]
          IN  /\ inp' = [inp EXCEPT !.query = query, !.top_k = top_k]
              /\ IF coll = None
                 THEN \* client.get_collection raises: no such collection
                      /\ out' = [out EXCEPT !.op = "search",
                                    !.raised = "NotFoundError",
                                    !.coll_before = coll, !.results = <<>>]
                      /\ proc' = [proc EXCEPT !.calls = @ + 1,
                                     !.searches = @ + 1,
                                     !.client_inits = @ + 1]
                 ELSE \E ans \in IF coll[1] = <<>> THEN EmptyAnswers
                                 ELSE {QueryAnswer(coll[1],
                                          QueryNormalize(Embed(query)), top_k)} :
                      /\ out' = [out EXCEPT !.op = "search", !.raised = "",
                                    !.coll_before = coll, !.answer = ans,
                                    !.results = SearchResults(ans)]
                      /\ proc' = [proc EXCEPT
                            !.calls = @ + 1,
                            !.searches = @ + 1,
                            !.search_embeds = @ + 1,
                            !.client_inits = @ + 1,
                            !.query_model_inits =
                                @ + ModelLoads(proc.model_cached),
                            !.model_cached = TRUE]
    /\ pc' = "called"
    /\ UNCHANGED store

Next == Main \/ Search

Spec == Init /\ [][Next]_vars

(***************************************************************************)
(* One indexing process and one query process against the same collection  *)
(* name, step by step: every call on the store is one step, and the steps  *)
(* of the two processes interleave freely.                                 *)
(***************************************************************************)
MaxRebuilds == 2
MaxSearches == 2

\* the batches build_index.main can hand to create_collection_and_index
RebuildBatches ==
    {CollectChunks(r, <<>>).chunks :
        r \in {q \in Repos : CollectChunks(q, <<>>).raised = ""}}

\* the collection.add calls of one run, each with the records it passes:
\* one call with all records of the batch
AddCallsPerRecord(records) == [i \in 1..Len(records) |-> <<records[i]>>]
AddCalls(records) == <<records>>

\* the records of a complete batch
CompleteBatch(chunks) ==
    BatchRecords(chunks,
        [i \in 1..Len(chunks) |-> IndexNormalize(Embed(chunks[i].text))])

InitRebuild ==
    /\ pc = [index |-> "idle", search |-> "idle"]
    /\ inp = [batch |-> <<>>, query |-> <<>>, top_k |-> 0]
    /\ out = [index_raised |-> "", failed_at |-> "", search_raised |-> "",
              seen |-> "nothing", records |-> <<>>, results |-> <<>>,
              overlapped |-> FALSE, runs_before |-> 0, before |-> None]
    /\ store = IdleStore
    /\ proc = [runs |-> 0, searches |-> 0, batches |-> {}, pending |-> <<>>,
               aborted |-> 0]

\* a step of the indexing run while a search is under way overlaps it
Overlap == out.overlapped \/ pc.search # "idle"

\* create_collection_and_index is called: mkdir and get_chroma_client
IxStart ==
    /\ pc.index = "idle"
    /\ proc.runs < MaxRebuilds
    /\ \E batch \in RebuildBatches :
          /\ inp' = [inp EXCEPT !.batch = batch]
          /\ proc' = [proc EXCEPT !.runs = @ + 1, !.batches = @ \cup {batch},
                                  !.pending = <<>>]
    /\ pc' = [pc EXCEPT !.index = "list"]
    /\ out' = [out EXCEPT !.index_raised = "", !.failed_at = "",
                          !.overlapped = Overlap,
                          !.before = store[CollectionName]]
    /\ UNCHANGED store

\* collection_name in [c.name for c in client.list_collections()]
IxList ==
    /\ pc.index = "list"
    /\ pc' = [pc EXCEPT !.index = IF store[CollectionName] # None
                                  THEN "delete" ELSE "create"]
    /\ out' = [out EXCEPT !.overlapped = Overlap]
    /\ UNCHANGED <<inp, store, proc>>

\* client.get_collection, then collection.delete() inside try / except
IxDelete ==
    /\ pc.index = "delete"
    /\ \E del \in DeleteOutcomes :
          store' = [store EXCEPT ![CollectionName] =
                       Some(AfterDelete(store[CollectionName][1], del))]
    /\ pc' = [pc EXCEPT !.index = "create"]
    /\ out' = [out EXCEPT !.overlapped = Overlap]
    /\ UNCHANGED <<inp, proc>>

\* client.create_collection(name=collection_name)
IxCreate ==
    /\ pc.index = "create"
    /\ IF store[CollectionName] # None
       THEN /\ out' = [out EXCEPT !.index_raised = "UniqueConstraintError",
                                  !.failed_at = "create",
                                  !.overlapped = Overlap]
            /\ pc' = [pc EXCEPT !.index = "idle"]
            /\ UNCHANGED store
       ELSE /\ store' = [store EXCEPT ![CollectionName] = Some(<<>>)]
            /\ pc' = [pc EXCEPT !.index = "embed"]
            /\ out' = [out EXCEPT !.overlapped = Overlap]
    /\ UNCHANGED <<inp, proc>>

\* build_embeddings, then the ids, documents and metadatas lists; loading
\* the model or encoding may fail for reasons outside the program (model
\* files unavailable), and then the exception leaves the run
IxEmbed ==
    /\ pc.index = "embed"
    /\ \E env_ok \in BOOLEAN :
          LET e == build_embeddings(inp.batch)
              raised == IF ~env_ok THEN "OSError" ELSE e.raised
          IN  IF raised # ""
              THEN /\ out' = [out EXCEPT !.index_raised = raised,
                                         !.failed_at = "embed",
                                         !.overlapped = Overlap]
                   /\ pc' = [pc EXCEPT !.index = "idle"]
                   /\ proc' = [proc EXCEPT !.aborted = @ + 1]
              ELSE /\ proc' = [proc EXCEPT !.pending =
                                  AddCalls(BatchRecords(inp.batch, e.embs))]
                   /\ pc' = [pc EXCEPT !.index = "add"]
                   /\ out' = [out EXCEPT !.overlapped = Overlap]
    /\ UNCHANGED <<inp, store>>

\* a collection.add call: the store takes all records of the call, or
\* rejects the call, stores none of them, and the exception leaves the run
IxAdd ==
    /\ pc.index = "add"
    /\ \E store_ok \in BOOLEAN :
          IF store_ok
          THEN /\ store' = [store EXCEPT ![CollectionName] =
                               Some(@[1] \o proc.pending[1])]
               /\ proc' = [proc EXCEPT !.pending = Tail(@)]
               /\ pc' = [pc EXCEPT !.index = IF Len(proc.pending) > 1
                                             THEN "add" ELSE "idle"]
               /\ out' = [out EXCEPT !.overlapped = Overlap]
          ELSE /\ out' = [out EXCEPT !.index_raised = "StoreError",
                                     !.failed_at = "add",
                                     !.overlapped = Overlap]
               /\ pc' = [pc EXCEPT !.index = "idle"]
               /\ proc' = [proc EXCEPT !.aborted = @ + 1]
               /\ UNCHANGED store
    /\ UNCHANGED inp

\* search is called: _get_client and client.get_collection, which raises
\* when no collection has the name
SrGet ==
    /\ pc.search = "idle"
    /\ proc.searches < MaxSearches
    /\ \E query \in Queries, top_k \in TopKs :
          inp' = [inp EXCEPT !.query = query, !.top_k = top_k]
    /\ proc' = [proc EXCEPT !.searches = @ + 1]
    /\ IF store[CollectionName] = None
       THEN /\ out' = [out EXCEPT !.search_raised = "NotFoundError",
                           !.seen = "missing", !.records = <<>>,
                           !.results = <<>>,
                           !.overlapped = pc.index # "idle",
                           !.runs_before = proc.runs]
            /\ UNCHANGED pc
       ELSE /\ out' = [out EXCEPT !.search_raised = "", !.seen = "nothing",
                           !.records = <<>>, !.results = <<>>,
                           !.overlapped = pc.index # "idle",
                           !.runs_before = proc.runs]
            /\ pc' = [pc EXCEPT !.search = "query"]
    /\ UNCHANGED store

\* the query is embedded and collection.query answers from the records the
\* collection holds at that moment
SrQuery ==
    /\ pc.search = "query"
    /\ LET recs == store[CollectionName][1]
       IN  \E ans \in IF recs = <<>> THEN EmptyAnswers
                      ELSE {QueryAnswer(recs, QueryNormalize(Embed(inp.query)),
                                        inp.top_k)} :
              out' = [out EXCEPT !.seen = "records", !.records = recs,
                          !.results = SearchResults(ans),
                          !.overlapped = @ \/ pc.index # "idle"]
    /\ pc' = [pc EXCEPT !.search = "idle"]
    /\ UNCHANGED <<inp, store, proc>>

NextRebuild ==
    \/ IxStart \/ IxList \/ IxDelete \/ IxCreate \/ IxEmbed \/ IxAdd
    \/ SrGet \/ SrQuery

SpecRebuild == InitRebuild /\ [][NextRebuild]_vars

\* a search call has returned or raised
SearchEnded == pc.search = "idle" /\ out.seen # "nothing"

\* C12, the serialized half: a search call that no step of an indexing run
\* overlaps, made after at least one run and while no run has been cut
\* short by a failure of the model or of the store, observes a collection
\* that holds exactly the complete batch of one of the runs.
C12_SerializedComplete ==
    (/\ SearchEnded /\ ~out.overlapped /\ out.runs_before >= 1
     /\ proc.aborted = 0) =>
        /\ out.seen = "records"
        /\ \E b \in proc.batches : out.records = CompleteBatch(b)

\* C12, the interleaved half: a search call overlapped by an indexing run
\* of a non-empty batch has observed a missing collection, or a collection
\* with no record at all.
MidRebuildObserved ==
    /\ SearchEnded /\ out.overlapped /\ pc.index # "idle"
    /\ inp.batch # <<>>
    /\ out.seen = "missing" \/ (out.seen = "records" /\ out.records = <<>>)

\* an indexing run has ended with an exception raised while embedding,
\* flattening or adding
FailedAfterCreate ==
    pc.index = "idle" /\ out.failed_at \in {"embed", "add"}

\* C13: the collection is created before the embeddings are computed and
\* all records are loaded by one add call; every run that fails while
\* embedding, flattening or adding raises to its caller and leaves the
\* collection existing without any record: none of the new batch (never a
\* part of it) and none of an earlier run.
C13_FailedRunLeavesEmpty ==
    /\ pc.index \in {"embed", "add"} => store[CollectionName] # None
    /\ pc.index = "embed" => store[CollectionName] = Some(<<>>)
    /\ pc.index = "add" => Len(proc.pending) = 1
    /\ FailedAfterCreate =>
          /\ out.index_raised # ""
          /\ store[CollectionName] = Some(<<>>)

\* Why the last clause of C13 never has records to lose (a lemma): a run
\* gets past create_collection only when no collection had the name when
\* the run began.
NoPreviousCollection == FailedAfterCreate => out.before = None

\* a run on a batch of two chunks was rejected by the store at add
C13_Witness ==
    /\ FailedAfterCreate /\ out.failed_at = "add"
    /\ Len(inp.batch) = 2
    /\ store[CollectionName] = Some(<<>>)

\* C4: every run of create_collection_and_index on a batch completes, also
\* when a collection holding an earlier batch already exists, and leaves the
\* collection holding exactly the ids, texts, metadata and embeddings of
\* that run's batch.
C4_FullRebuild ==
    (/\ out.op = "main" /\ out.index_called /\ out.batch # <<>>
     /\ out.coll_before # Some(<<>>)) =>
        /\ out.raised = ""
        /\ store[CollectionName] # None
        /\ LET recs == store[CollectionName][1]
           IN  /\ Len(recs) = Len(out.batch)
               /\ \A i \in 1..Len(recs) :
                     /\ recs[i].id = out.batch[i].id
                     /\ recs[i].document = out.batch[i].text
                     /\ recs[i].metadata = to_metadata(out.batch[i])
                     /\ recs[i].embedding
                            = IndexNormalize(Embed(out.batch[i].text))

\* C5: search returns the empty list and does not raise when the collection
\* is missing, is empty, or the answer carries no distance data; otherwise
\* it returns at most top_k pairs, pair i built from the distance, document
\* and metadata at position i of the store's answer.
C5_SearchDegenerate ==
    out.op = "search" =>
        /\ out.raised = ""
        /\ IF \/ out.coll_before = None
              \/ out.coll_before = Some(<<>>)
              \/ ~out.answer.has_distances
              \/ out.answer.distances = <<>>
           THEN out.results = <<>>
           ELSE /\ Len(out.results) <= inp.top_k
                /\ Len(out.results) = Len(out.answer.distances[1])
                /\ \A i \in 1..Len(out.results) :
                      /\ out.results[i].score = out.answer.distances[1][i]
                      /\ out.results[i].item.text = out.answer.documents[1][i]
                      /\ out.results[i].item.metadata
                             = out.answer.metadatas[1][i]

\* C7: every chunk of a batch that main hands to create_collection_and_index,
\* and that the run stores, has non-empty text.
C7_NoEmptyText ==
    (out.op = "main" /\ out.index_called /\ out.raised = "") =>
        \A i \in 1..Len(out.batch) : out.batch[i].text # <<>>

\* C9: over any sequence of indexing and query calls of one process the
\* embedding model is initialized at most once and the store client is
\* initialized at most once.
C9_InitializedOnce ==
    /\ proc.query_model_inits + proc.index_model_inits <= 1
    /\ proc.client_inits <= 1

\* What the code does keep (a lemma, weaker than C9): the query path's model
\* is initialized at most once, by the first search that reaches the
\* embedding step; every indexing run that reaches build_embeddings loads
\* the model again, and every call constructs a new store client.
QueryModelOnce ==
    /\ proc.query_model_inits <= 1
    /\ proc.query_model_inits = 1 <=> proc.search_embeds >= 1
    /\ proc.model_cached <=> proc.search_embeds >= 1
    /\ proc.index_model_inits = proc.index_embeds
    /\ proc.client_inits = proc.index_runs + proc.searches

====
